---- MODULE Spec2Model ----
(***************************************************************************)
(* Model of the static-CSV marker importer of Skybrush Studio for Blender  *)
(* (sbstudio/plugin/operators/add_markers_from_static_csv.py).             *)
(*                                                                         *)
(* Text is modelled as sequences of one-character strings, so that         *)
(* splitting on commas, lower-casing, prefix tests and the int()/float()   *)
(* coercions are computed rather than assumed.  A float is the pair        *)
(* <<n, s>> standing for n / 10^s with trailing zeros removed, so that     *)
(* "1.0" and "1" denote the same number.  The numeric tokens of the        *)
(* model use digits, sign, point and blanks only (no exponent, no          *)
(* underscore, no inf/nan), and no line contains a quote character.        *)
(***************************************************************************)
EXTENDS Integers, Sequences, FiniteSets, TLC

\* Longest file (in lines) the model reads.
MaxLines == 3

----------------------------------------------------------------------------
(* Characters and strings *)

UpperChars == <<"A","B","C","D","E","F","G","H","I","J","K","L","M",
                "N","O","P","Q","R","S","T","U","V","W","X","Y","Z">>
LowerChars == <<"a","b","c","d","e","f","g","h","i","j","k","l","m",
                "n","o","p","q","r","s","t","u","v","w","x","y","z">>
Digits == <<"0","1","2","3","4","5","6","7","8","9">>

\* str.lower() on one character
LowerChar(c) ==
    IF \E i \in 1..26 : UpperChars[i] = c
    THEN LowerChars[CHOOSE i \in 1..26 : UpperChars[i] = c]
    ELSE c

\* str.lower()
LowerStr(s) == [i \in 1..Len(s) |-> LowerChar(s[i])]

\* str.startswith(prefix)
StartsWith(s, prefix) ==
    /\ Len(s) >= Len(prefix)
    /\ SubSeq(s, 1, Len(prefix)) = prefix

\* str.endswith(suffix)
EndsWith(s, suffix) ==
    /\ Len(s) >= Len(suffix)
    /\ SubSeq(s, Len(s) - Len(suffix) + 1, Len(s)) = suffix

IsSpace(c) == c = " "
IsDigit(c) == \E i \in 1..10 : Digits[i] = c
DigitVal(c) == (CHOOSE i \in 1..10 : Digits[i] = c) - 1

RECURSIVE StripLeft(_)
StripLeft(s) ==
    IF s # <<>> /\ IsSpace(s[1]) THEN StripLeft(Tail(s)) ELSE s

RECURSIVE StripRight(_)
StripRight(s) ==
    IF s # <<>> /\ IsSpace(s[Len(s)])
    THEN StripRight(SubSeq(s, 1, Len(s) - 1))
    ELSE s

\* the whitespace stripping int() and float() apply to their argument
Strip(s) == StripRight(StripLeft(s))

AllDigits(s) == \A i \in 1..Len(s) : IsDigit(s[i])

RECURSIVE DigitsVal(_)
DigitsVal(s) ==
    IF s = <<>> THEN 0
    ELSE DigitsVal(SubSeq(s, 1, Len(s) - 1)) * 10 + DigitVal(s[Len(s)])

HasSign(s) == s # <<>> /\ s[1] \in {"+", "-"}
Unsigned(s) == IF HasSign(s) THEN Tail(s) ELSE s
SignOf(s) == IF s # <<>> /\ s[1] = "-" THEN -1 ELSE 1

\* int(value): [ok |-> FALSE] stands for the ValueError
IntOf(s) ==
    LET body == Unsigned(Strip(s))
    IN  IF body # <<>> /\ AllDigits(body)
        THEN [ok |-> TRUE, val |-> SignOf(Strip(s)) * DigitsVal(body)]
        ELSE [ok |-> FALSE, val |-> 0]

RECURSIVE Normalise(_, _)
Normalise(n, s) ==
    IF s > 0 /\ n % 10 = 0 THEN Normalise(n \div 10, s - 1) ELSE <<n, s>>

PointPos(s) ==
    IF \E i \in 1..Len(s) : s[i] = "."
    THEN CHOOSE i \in 1..Len(s) : s[i] = "." /\ \A j \in 1..(i-1) : s[j] # "."
    ELSE 0

\* float(value): [ok |-> FALSE] stands for the ValueError
FloatOf(s) ==
    LET body == Unsigned(Strip(s))
        p    == PointPos(body)
        ip   == IF p = 0 THEN body ELSE SubSeq(body, 1, p - 1)
        fp   == IF p = 0 THEN <<>> ELSE SubSeq(body, p + 1, Len(body))
    IN  IF AllDigits(ip) /\ AllDigits(fp) /\ (ip # <<>> \/ fp # <<>>)
        THEN [ok |-> TRUE,
              val |-> Normalise(SignOf(Strip(s)) * DigitsVal(ip \o fp), Len(fp))]
        ELSE [ok |-> FALSE, val |-> <<0, 0>>]

\* bpy.path.ensure_ext(filepath, ext): append ext unless already there
\* (compared case-insensitively)
EnsureExt(path, ext) ==
    IF EndsWith(LowerStr(path), LowerStr(ext)) THEN path ELSE path \o ext

filename_ext == <<".","c","s","v">>

----------------------------------------------------------------------------
(* CSV tokenisation *)

RECURSIVE SplitFields(_, _, _)
SplitFields(line, i, cur) ==
    IF i > Len(line) THEN <<cur>>
    ELSE IF line[i] = "," THEN <<cur>> \o SplitFields(line, i + 1, <<>>)
    ELSE SplitFields(line, i + 1, Append(cur, line[i]))

\* one row of csv.reader(lines, delimiter=","): an empty line gives []
CsvRow(line) == IF line = <<>> THEN <<>> ELSE SplitFields(line, 1, <<>>)

RECURSIVE JoinComma(_)
JoinComma(fields) ==
    IF Len(fields) = 0 THEN <<>>
    ELSE IF Len(fields) = 1 THEN fields[1]
    ELSE fields[1] \o <<",">> \o JoinComma(Tail(fields))

\* Python slice seq[a:b] (0-based, end exclusive, clipped to the length)
Slice(seq, a, b) ==
    SubSeq(seq, a + 1, IF b < Len(seq) THEN b ELSE Len(seq))

----------------------------------------------------------------------------
(* Inputs: the lines a file may hold, the paths chosen in the file dialog,  *)
(* and the host scene the operator runs in                                  *)

P1    == <<"P","1">>
P2    == <<"P","2">>
P3    == <<"P","3">>
Name  == <<"N","a","m","e">>
Name1 == <<"N","a","m","e","1">>
NAME  == <<"N","A","M","E">>

FileLines ==
    { <<>>,
      JoinComma(<<NAME, <<"x">>, <<"y">>, <<"z">> >>),
      JoinComma(<<Name, <<"1",".","0">>, <<"2">>, <<"-","3",".","5">> >>),
      JoinComma(<<Name1, <<"1",".","0">>, <<"2">>, <<"-","3",".","5">> >>),
      JoinComma(<<P1, <<"1",".","0">>, <<"2",".","0">>, <<"3",".","0">> >>),
      JoinComma(<<P1, <<"1",".","0">>, <<"2",".","0">>, <<"3",".","0">>,
                  <<"1","0">>, <<"2","0">>, <<"3","0">> >>),
      JoinComma(<<P2, <<" ","7">>, <<".","5">>, <<"2",".">>,
                  <<"0">>, <<"+","2","0">>, <<"2","5","5"," ">> >>),
      JoinComma(<<P1, <<"a","b","c">>, <<"2",".","0">>, <<"3",".","0">> >>),
      JoinComma(<<P2, <<"1">>, <<"2">> >>),
      JoinComma(<<P2, <<"1">>, <<"2">>, <<"3">>, <<"1","0">> >>),
      JoinComma(<<P2, <<"1">>, <<"2">>, <<"3">>, <<"1","0">>, <<"2","0">> >>),
      JoinComma(<<P2, <<"1">>, <<"2">>, <<"3">>,
                  <<"1","0">>, <<"1",".","5">>, <<"3","0">> >>),
      JoinComma(<<P3, <<"1">>, <<"2">>, <<"3">>,
                  <<"1","0">>, <<"2","0">>, <<"3","0">>, <<"9","9">> >>) }

Files == UNION { [1..n -> FileLines] : n \in 0..MaxLines }

FilePaths == { <<"s">>, <<"s",".","C","S","V">> }

\* storyboard.get_first_entry_for_formation(formation): None or an entry
NoEntry == [present |-> FALSE, frame_start |-> 0, duration |-> 0]
StoryboardEntries ==
    { NoEntry, [present |-> TRUE, frame_start |-> 100, duration |-> 50] }

\* context.scene.frame_start
SceneFrameStarts == {1}

FormationName == "Formation"

----------------------------------------------------------------------------
(* Messages and errors *)

NoError == [kind |-> "none", text |-> "", filename |-> <<>>,
            row |-> <<>>, name |-> <<>>]

\* raised by open() for a missing or unreadable file
OSError(fname) ==
    [kind |-> "OSError", text |-> "open failed", filename |-> fname,
     row |-> <<>>, name |-> <<>>]

\* RuntimeError(f"Invalid content in input CSV file {filename!r}, row {row!r}")
InvalidContent(fname, row) ==
    [kind |-> "RuntimeError", text |-> "Invalid content in input CSV file",
     filename |-> fname, row |-> row, name |-> <<>>]

\* RuntimeError(f"Duplicate object name in input CSV file: {name}")
DuplicateName(name) ==
    [kind |-> "RuntimeError", text |-> "Duplicate object name in input CSV file",
     filename |-> <<>>, row |-> <<>>, name |-> name]

EmptyFormation ==
    [kind |-> "report", text |-> "Formation would be empty, nothing was created",
     filename |-> <<>>, row |-> <<>>, name |-> <<>>]

----------------------------------------------------------------------------
(* The row loop of parse_static_csv_zip, as operators *)

\* "if not row"
IsBlank(row) == row = <<>>

\* Faulty variant: the check is repeated on every row, header_passed ignored
IsHeaderRow_EveryRow(row, hp) ==
    StartsWith(LowerStr(row[1]), <<"n","a","m","e">>)

\* Faulty variant: the first field must equal "name" instead of beginning
\* with it
IsHeaderRow_Exact(row, hp) ==
    /\ ~hp
    /\ LowerStr(row[1]) = <<"n","a","m","e">>

\* Faulty variant: the first field is not lower-cased before the test
IsHeaderRow_CaseSensitive(row, hp) ==
    /\ ~hp
    /\ StartsWith(row[1], <<"n","a","m","e">>)

\* "if not header_passed: ... if row[0].lower().startswith("name")"
IsHeaderRow(row, hp) ==
    /\ ~hp
    /\ StartsWith(LowerStr(row[1]), <<"n","a","m","e">>)

\* Faulty variant: colors are read only from rows with 7 fields or more
HasColor_Over6(row) == Len(row) > 6

\* "len(row) > 4"
HasColor(row) == Len(row) > 4

\* the try block succeeds: three floats unpack from row[1:4] and, for a
\* row with colors, three ints unpack from row[4:7]
RowParses(row) ==
    /\ Len(row) >= 1
    /\ Len(Slice(row, 1, 4)) = 3
    /\ \A i \in 1..3 : FloatOf(Slice(row, 1, 4)[i]).ok
    /\ HasColor(row) =>
          /\ Len(Slice(row, 4, 7)) = 3
          /\ \A i \in 1..3 : IntOf(Slice(row, 4, 7)[i]).ok

DefaultColor == <<255, 255, 255>>

\* Point3D(x, y, z)
RowPosition(row) == [i \in 1..3 |-> FloatOf(Slice(row, 1, 4)[i]).val]

\* Faulty variant: the color fields are taken one position too early
RowColor_WrongSlice(row) ==
    IF HasColor(row)
    THEN [i \in 1..3 |-> IntOf(Slice(row, 3, 6)[i]).val]
    ELSE DefaultColor

\* Color3D(r, g, b)
RowColor(row) ==
    IF HasColor(row)
    THEN [i \in 1..3 |-> IntOf(Slice(row, 4, 7)[i]).val]
    ELSE DefaultColor

\* ImportedData(position=..., color=...) keyed by its name
RowEntry(row) ==
    [name |-> row[1], position |-> RowPosition(row), color |-> RowColor(row)]

\* Faulty variant: only the most recent entry is compared
NameInResult_LastOnly(name, res) ==
    res # <<>> /\ res[Len(res)].name = name

\* "name in result"
NameInResult(name, res) == \E k \in 1..Len(res) : res[k].name = name

\* Faulty variant: a new key is put in front of the others
DictSet_Prepend(res, entry) ==
    IF \E k \in 1..Len(res) : res[k].name = entry.name
    THEN [k \in 1..Len(res) |->
            IF res[k].name = entry.name THEN entry ELSE res[k]]
    ELSE <<entry>> \o res

\* "result[name] = data" on an insertion-ordered dict
DictSet(res, entry) ==
    IF \E k \in 1..Len(res) : res[k].name = entry.name
    THEN [k \in 1..Len(res) |->
            IF res[k].name = entry.name THEN entry ELSE res[k]]
    ELSE Append(res, entry)

\* item.position.as_vector()
PointAsVector(position) == position

\* item.color.as_vector()
ColorAsVector(color) == color

RECURSIVE Chain(_)
\* list(chain(*colors))
Chain(seqs) == IF seqs = <<>> THEN <<>> ELSE seqs[1] \o Chain(Tail(seqs))

----------------------------------------------------------------------------
(* State *)

VARIABLES
    file,            \* the lines of the file on disk
    filepath,        \* self.filepath, as chosen in the file dialog
    pc,              \* position of execute_on_formation
    imported_data,   \* local of execute_on_formation
    timing,          \* locals frame_start and duration
    ret,             \* value returned by execute_on_formation
    reports,         \* messages passed to self.report
    formationPoints, \* markers added to the formation
    lightEntries,    \* entries appended to the light effect list
    images,          \* color images created
    ppc,             \* position of parse_static_csv_zip
    filename,        \* argument of parse_static_csv_zip
    handle,          \* state of csv_file
    openCount,       \* number of times open() succeeded
    lines,           \* local of parse_static_csv_zip
    idx,             \* index of the next row of csv.reader
    header_passed,   \* local of parse_static_csv_zip
    result,          \* local of parse_static_csv_zip
    err,             \* exception in flight or raised
    trace            \* what the loop did with each row consumed so far

execVars  == <<pc, imported_data, timing, ret, reports>>
sceneVars == <<formationPoints, lightEntries, images>>
parseVars == <<ppc, filename, handle, openCount, lines, idx, header_passed,
               result, err, trace>>
vars == <<file, filepath, execVars, sceneVars, parseVars>>

NoTiming == [frame_start |-> 0, duration |-> 0]

Init ==
    /\ file \in Files
    /\ filepath \in FilePaths
    /\ pc = "idle"
    /\ imported_data = <<>>
    /\ timing = NoTiming
    /\ ret = "none"
    /\ reports = <<>>
    /\ formationPoints = <<>>
    /\ lightEntries = <<>>
    /\ images = <<>>
    /\ ppc = "idle"
    /\ filename = <<>>
    /\ handle = "none"
    /\ openCount = 0
    /\ lines = <<>>
    /\ idx = 1
    /\ header_passed = FALSE
    /\ result = <<>>
    /\ err = NoError
    /\ trace = <<>>

----------------------------------------------------------------------------
(* parse_static_csv_zip *)

\* execute_on_formation calls the parser on the path with its extension
ExecCallParse ==
    /\ pc = "idle"
    /\ pc' = "parsing"
    /\ ppc' = "open"
    /\ filename' = EnsureExt(filepath, filename_ext)
    /\ result' = <<>>
    /\ header_passed' = FALSE
    /\ UNCHANGED <<file, filepath, imported_data, timing, ret, reports,
                   sceneVars, handle, openCount, lines, idx, err, trace>>

\* open(filename, "r") succeeds
ParseOpen ==
    /\ ppc = "open"
    /\ handle' = "open"
    /\ openCount' = openCount + 1
    /\ ppc' = "read"
    /\ UNCHANGED <<file, filepath, execVars, sceneVars, filename, lines, idx,
                   header_passed, result, err, trace>>

\* open(filename, "r") raises: the file is missing or unreadable
ParseOpenFails ==
    /\ ppc = "open"
    /\ err' = OSError(filename)
    /\ ppc' = "raised"
    /\ UNCHANGED <<file, filepath, execVars, sceneVars, filename, handle,
                   openCount, lines, idx, header_passed, result, trace>>

\* lines = list(csv_file)
ParseReadLines ==
    /\ ppc = "read"
    /\ lines' = file
    /\ idx' = 1
    /\ ppc' = "loop"
    /\ UNCHANGED <<file, filepath, execVars, sceneVars, filename, handle,
                   openCount, header_passed, result, err, trace>>

CurrentRow == CsvRow(lines[idx])
InLoop == ppc = "loop" /\ idx <= Len(lines)

\* "if not row: continue"
ParseSkipBlank ==
    /\ InLoop
    /\ IsBlank(CurrentRow)
    /\ idx' = idx + 1
    /\ trace' = Append(trace, "blank")
    /\ UNCHANGED <<file, filepath, execVars, sceneVars, ppc, filename, handle,
                   openCount, lines, header_passed, result, err>>

\* the first non-blank row starts with "name": skipped as the header
ParseSkipHeader ==
    /\ InLoop
    /\ ~IsBlank(CurrentRow)
    /\ IsHeaderRow(CurrentRow, header_passed)
    /\ header_passed' = TRUE
    /\ idx' = idx + 1
    /\ trace' = Append(trace, "header")
    /\ UNCHANGED <<file, filepath, execVars, sceneVars, ppc, filename, handle,
                   openCount, lines, result, err>>

\* Faulty variant: the error leaves the function without closing csv_file
ParseInvalidRow_NoClose ==
    /\ InLoop
    /\ ~IsBlank(CurrentRow)
    /\ ~IsHeaderRow(CurrentRow, header_passed)
    /\ ~RowParses(CurrentRow)
    /\ header_passed' = TRUE
    /\ err' = InvalidContent(filename, CurrentRow)
    /\ trace' = Append(trace, "invalid")
    /\ ppc' = "raised"
    /\ UNCHANGED <<file, filepath, execVars, sceneVars, filename, handle,
                   openCount, lines, idx, result>>

\* the try block raises: RuntimeError("Invalid content ...")
ParseInvalidRow ==
    /\ InLoop
    /\ ~IsBlank(CurrentRow)
    /\ ~IsHeaderRow(CurrentRow, header_passed)
    /\ ~RowParses(CurrentRow)
    /\ header_passed' = TRUE
    /\ err' = InvalidContent(filename, CurrentRow)
    /\ trace' = Append(trace, "invalid")
    /\ ppc' = "exit"
    /\ UNCHANGED <<file, filepath, execVars, sceneVars, filename, handle,
                   openCount, lines, idx, result>>

\* "if name in result: raise RuntimeError("Duplicate object name ...")"
ParseDuplicate ==
    /\ InLoop
    /\ ~IsBlank(CurrentRow)
    /\ ~IsHeaderRow(CurrentRow, header_passed)
    /\ RowParses(CurrentRow)
    /\ NameInResult(CurrentRow[1], result)
    /\ header_passed' = TRUE
    /\ err' = DuplicateName(CurrentRow[1])
    /\ trace' = Append(trace, "duplicate")
    /\ ppc' = "exit"
    /\ UNCHANGED <<file, filepath, execVars, sceneVars, filename, handle,
                   openCount, lines, idx, result>>

\* "result[name] = data"
ParseStore ==
    /\ InLoop
    /\ ~IsBlank(CurrentRow)
    /\ ~IsHeaderRow(CurrentRow, header_passed)
    /\ RowParses(CurrentRow)
    /\ ~NameInResult(CurrentRow[1], result)
    /\ header_passed' = TRUE
    /\ result' = DictSet(result, RowEntry(CurrentRow))
    /\ idx' = idx + 1
    /\ trace' = Append(trace, "stored")
    /\ UNCHANGED <<file, filepath, execVars, sceneVars, ppc, filename, handle,
                   openCount, lines, err>>

\* csv.reader is exhausted: control leaves the with block normally
ParseLoopEnd ==
    /\ ppc = "loop"
    /\ idx > Len(lines)
    /\ ppc' = "exit"
    /\ UNCHANGED <<file, filepath, execVars, sceneVars, filename, handle,
                   openCount, lines, idx, header_passed, result, err, trace>>

\* the with statement closes csv_file; then "return result" or the
\* exception reaches the caller
ParseClose ==
    /\ ppc = "exit"
    /\ handle' = "closed"
    /\ ppc' = IF err = NoError THEN "returned" ELSE "raised"
    /\ UNCHANGED <<file, filepath, execVars, sceneVars, filename, openCount,
                   lines, idx, header_passed, result, err, trace>>

----------------------------------------------------------------------------
(* AddMarkersFromStaticCSVOperator.execute_on_formation *)

\* Faulty variant: the error is reported but the operator carries on with
\* what the parser had collected
ExecParseError_Continues ==
    /\ pc = "parsing"
    /\ ppc = "raised"
    /\ err.kind = "RuntimeError"
    /\ reports' = Append(reports, err)
    /\ imported_data' = result
    /\ pc' = "lookup"
    /\ UNCHANGED <<file, filepath, timing, ret, sceneVars, parseVars>>

\* "except RuntimeError as error: self.report(...); return {"CANCELLED"}"
ExecParseError ==
    /\ pc = "parsing"
    /\ ppc = "raised"
    /\ err.kind = "RuntimeError"
    /\ reports' = Append(reports, err)
    /\ ret' = "CANCELLED"
    /\ pc' = "done"
    /\ UNCHANGED <<file, filepath, imported_data, timing, sceneVars, parseVars>>

\* an exception that is not a RuntimeError leaves the operator
ExecParsePropagates ==
    /\ pc = "parsing"
    /\ ppc = "raised"
    /\ err.kind # "RuntimeError"
    /\ pc' = "failed"
    /\ UNCHANGED <<file, filepath, imported_data, timing, ret, reports,
                   sceneVars, parseVars>>

\* "imported_data = parse_static_csv_zip(filepath, context)"
ExecParseReturned ==
    /\ pc = "parsing"
    /\ ppc = "returned"
    /\ imported_data' = result
    /\ pc' = "lookup"
    /\ UNCHANGED <<file, filepath, timing, ret, reports, sceneVars, parseVars>>

\* frame_start and duration from the storyboard entry, or the defaults
ExecLookup ==
    /\ pc = "lookup"
    /\ \E entry \in StoryboardEntries, scene_start \in SceneFrameStarts :
          timing' = [frame_start |-> IF entry.present THEN entry.frame_start
                                     ELSE scene_start,
                     duration    |-> IF entry.present THEN entry.duration
                                     ELSE 1]
    /\ pc' = "points"
    /\ UNCHANGED <<file, filepath, imported_data, ret, reports, sceneVars,
                   parseVars>>

Points == [k \in 1..Len(imported_data) |->
              PointAsVector(imported_data[k].position)]
Colors == [k \in 1..Len(imported_data) |->
              ColorAsVector(imported_data[k].color)]

\* "if not points: self.report({"ERROR"}, "Formation would be empty ...")"
ExecReportEmpty ==
    /\ pc = "points"
    /\ Points = <<>>
    /\ reports' = Append(reports, EmptyFormation)
    /\ pc' = "light"
    /\ UNCHANGED <<file, filepath, imported_data, timing, ret, sceneVars,
                   parseVars>>

\* "else: add_points_to_formation(formation, points)"
ExecAddPoints ==
    /\ pc = "points"
    /\ Points # <<>>
    /\ formationPoints' = formationPoints \o Points
    /\ pc' = "light"
    /\ UNCHANGED <<file, filepath, imported_data, timing, ret, reports,
                   lightEntries, images, parseVars>>

\* "if light_effects:" holds: a light effect entry and its color image are
\* created from the imported colors
ExecLightEffect ==
    /\ pc = "light"
    /\ lightEntries' = Append(lightEntries,
          [name        |-> FormationName,
           frame_start |-> timing.frame_start,
           duration    |-> timing.duration,
           select      |-> TRUE,
           output      |-> "INDEXED_BY_FORMATION"])
    /\ images' = Append(images,
          [name   |-> <<"Image for light effect", FormationName>>,
           width  |-> 1,
           height |-> Len(Colors),
           pixels |-> Chain(Colors)])
    /\ ret' = "FINISHED"
    /\ pc' = "done"
    /\ UNCHANGED <<file, filepath, imported_data, timing, reports,
                   formationPoints, parseVars>>

\* "if light_effects:" does not hold
ExecNoLightEffect ==
    /\ pc = "light"
    /\ ret' = "FINISHED"
    /\ pc' = "done"
    /\ UNCHANGED <<file, filepath, imported_data, timing, reports, sceneVars,
                   parseVars>>

----------------------------------------------------------------------------

Next ==
    \/ ExecCallParse
    \/ ParseOpen
    \/ ParseOpenFails
    \/ ParseReadLines
    \/ ParseSkipBlank
    \/ ParseSkipHeader
    \/ ParseInvalidRow
    \/ ParseDuplicate
    \/ ParseStore
    \/ ParseLoopEnd
    \/ ParseClose
    \/ ExecParseError
    \/ ExecParsePropagates
    \/ ExecParseReturned
    \/ ExecLookup
    \/ ExecReportEmpty
    \/ ExecAddPoints
    \/ ExecLightEffect
    \/ ExecNoLightEffect

Spec == Init /\ [][Next]_vars

TypeOK ==
    /\ pc \in {"idle", "parsing", "lookup", "points", "light", "done", "failed"}
    /\ ppc \in {"idle", "open", "read", "loop", "exit", "returned", "raised"}
    /\ handle \in {"none", "open", "closed"}
    /\ ret \in {"none", "CANCELLED", "FINISHED"}
    /\ idx \in 1..(Len(lines) + 1)
    /\ Len(trace) <= Len(lines)

----------------------------------------------------------------------------
(* Vocabulary of the properties, stated over the file on disk *)

Rows == [i \in 1..Len(file) |-> CsvRow(file[i])]
NonBlankIdx == { i \in 1..Len(file) : Rows[i] # <<>> }

RECURSIVE FirstNonBlankFrom(_)
FirstNonBlankFrom(i) ==
    IF i > Len(file) THEN 0
    ELSE IF CsvRow(file[i]) # <<>> THEN i
    ELSE FirstNonBlankFrom(i + 1)

\* index of the first non-blank row, 0 if there is none
FirstNonBlank == FirstNonBlankFrom(1)

BeginsWithName(row) == StartsWith(LowerStr(row[1]), <<"n","a","m","e">>)

\* the row the parser is meant to skip as the header, 0 if there is none
HeaderIdx ==
    LET first == FirstNonBlank
    IN  IF first # 0 /\ BeginsWithName(Rows[first]) THEN first ELSE 0

DataIdx == NonBlankIdx \ {HeaderIdx}

Numeric(field) == FloatOf(field).ok
Integral(field) == IntOf(field).ok

\* name, three numeric coordinates, then nothing or at least three integers
WellFormed(row) ==
    /\ Len(row) = 4 \/ Len(row) >= 7
    /\ \A k \in 2..4 : Numeric(row[k])
    /\ Len(row) >= 7 => \A k \in 5..7 : Integral(row[k])

ExpectedColor(row) ==
    IF Len(row) = 4 THEN <<255, 255, 255>>
    ELSE <<IntOf(row[5]).val, IntOf(row[6]).val, IntOf(row[7]).val>>

ExpectedEntry(row) ==
    [name     |-> row[1],
     position |-> <<FloatOf(row[2]).val, FloatOf(row[3]).val, FloatOf(row[4]).val>>,
     color    |-> ExpectedColor(row)]

RECURSIVE ExpectedFrom(_)
\* the entries of the non-blank rows from row i on, in file order
ExpectedFrom(i) ==
    IF i > Len(file) THEN <<>>
    ELSE (IF Rows[i] # <<>> THEN <<ExpectedEntry(Rows[i])>> ELSE <<>>)
         \o ExpectedFrom(i + 1)

RECURSIVE StoredFrom(_)
\* indices of the rows the loop stored, in order
StoredFrom(i) ==
    IF i > Len(trace) THEN <<>>
    ELSE (IF trace[i] = "stored" THEN <<i>> ELSE <<>>) \o StoredFrom(i + 1)

HasKey(res, name) == \E k \in 1..Len(res) : res[k].name = name
InTrace(what) == \E i \in 1..Len(trace) : trace[i] = what

SceneMutated ==
    formationPoints # <<>> \/ lightEntries # <<>> \/ images # <<>>

ParseDone == ppc \in {"returned", "raised"}
ParseFailed == ppc = "raised"
ContentParseDone == ParseDone /\ err.kind # "OSError"

----------------------------------------------------------------------------
(* Properties *)

\* C1: every scene mutation (points, light effect entry, color image)
\* happens after the parser has returned successfully for the whole file;
\* while the parser runs, and after it has failed with a content or I/O
\* error, the scene is unmodified.
C1_MutationAfterParse ==
    /\ SceneMutated =>
          /\ ppc = "returned"
          /\ idx > Len(lines)
          /\ lines = file
          /\ pc \in {"light", "done"}
    /\ (ParseFailed \/ ppc \in {"open", "read", "loop", "exit"}) => ~SceneMutated

C1_Witness ==
    /\ pc = "done" /\ ret = "CANCELLED"
    /\ ParseFailed /\ result # <<>>
    /\ ~SceneMutated

\* C2 as stated: whenever two non-blank rows (the first non-blank row
\* included) share their first field, the parse fails.
C2_Original ==
    (ParseDone /\ \E i, j \in NonBlankIdx : i # j /\ Rows[i][1] = Rows[j][1])
        => ParseFailed

\* C2 amended: whenever two data rows (non-blank rows other than the row
\* skipped as the header) share their name, the parse fails and no mapping
\* reaches the caller; the result never holds a name twice and never loses
\* a stored row.
C2_DuplicateDataRows ==
    /\ (ParseDone /\ LET h == HeaderIdx
                     IN  \E i \in 1..Len(file) : \E j \in (i + 1)..Len(file) :
                            /\ i # h /\ j # h
                            /\ Rows[i] # <<>> /\ Rows[j] # <<>>
                            /\ Rows[i][1] = Rows[j][1])
          => (ParseFailed /\ imported_data = <<>> /\ pc \in {"parsing", "done", "failed"})
    /\ \A k, l \in 1..Len(result) : k # l => result[k].name # result[l].name
    /\ Len(result) = Len(StoredFrom(1))

C2_Witness ==
    /\ ParseFailed
    /\ err = DuplicateName(P1)
    /\ trace = <<"stored", "stored", "duplicate">>
    /\ Rows[1][1] = P1 /\ Rows[3][1] = P1 /\ Rows[1] # Rows[3]

\* C3: the header check is spent on exactly the first non-blank row: a row
\* is skipped as header iff it is the first non-blank row and its first
\* field, lower-cased, begins with "name"; blank rows are skipped without
\* consuming the check; every other row is treated as data.
C3_HeaderCheckOnce ==
    LET first == FirstNonBlank
    IN  /\ header_passed <=> first \in 1..Len(trace)
        /\ \A i \in 1..Len(trace) :
              /\ trace[i] = "blank" <=> Rows[i] = <<>>
              /\ trace[i] = "header" <=>
                    (i = first /\ BeginsWithName(Rows[i]))

C3_Witness ==
    /\ trace = <<"blank", "header", "stored">>
    /\ BeginsWithName(Rows[3])
    /\ HasKey(result, Rows[3][1])

\* C4 as stated: a first non-blank row named "Name1" with valid coordinates
\* is parsed as data and ends up in the result under "Name1".
C4_Original ==
    (/\ ppc = "returned"
     /\ FirstNonBlank # 0
     /\ Rows[FirstNonBlank][1] = Name1
     /\ WellFormed(Rows[FirstNonBlank]))
        => HasKey(result, Name1)

\* C4 amended: a first non-blank row named "Name1" does trigger the header
\* heuristic, as does every first field beginning with "name" in any case:
\* the row is skipped, and "Name1" is a key of the result only if a later
\* row carries that name.
C4_Name1IsHeader ==
    LET first == FirstNonBlank
    IN  /\ (first \in 1..Len(trace) /\ Rows[first][1] = Name1)
              => trace[first] = "header"
        /\ (ppc = "returned" /\ first # 0 /\ Rows[first][1] = Name1)
              => (HasKey(result, Name1) <=>
                    \E j \in (first + 1)..Len(file) :
                        Rows[j] # <<>> /\ Rows[j][1] = Name1)

C4_Witness ==
    /\ ppc = "returned"
    /\ trace = <<"header", "stored", "stored">>
    /\ Rows[1][1] = Name1 /\ WellFormed(Rows[1])
    /\ ~HasKey(result, Name1)

\* C5: a file without header row whose data rows are all well formed and
\* pairwise distinctly named parses successfully to exactly one entry per
\* data row, in file order, each with the name, position and color its row
\* encodes.
C5_RoundTrip ==
    (/\ ContentParseDone
     /\ HeaderIdx = 0
     /\ \A i \in NonBlankIdx : WellFormed(Rows[i])
     /\ \A i, j \in NonBlankIdx : i # j => Rows[i][1] # Rows[j][1])
        => /\ ppc = "returned"
           /\ Len(result) = Cardinality(NonBlankIdx)
           /\ result = ExpectedFrom(1)

C5_Witness ==
    /\ ppc = "returned"
    /\ HeaderIdx = 0
    /\ result =
         << [name |-> P2, position |-> << <<7, 0>>, <<5, 1>>, <<2, 0>> >>,
             color |-> <<0, 20, 255>>],
            [name |-> P1, position |-> << <<1, 0>>, <<2, 0>>, <<3, 0>> >>,
             color |-> <<255, 255, 255>>],
            [name |-> Name, position |-> << <<1, 0>>, <<2, 0>>, <<-35, 1>> >>,
             color |-> <<255, 255, 255>>] >>

\* C6: a data row that is not (name, three numeric coordinates, then no
\* further field or at least three integer color fields) aborts the parse at
\* that row with the content error carrying the file path and the raw row:
\* no later row is consumed, nothing is returned to the caller, and the
\* scene is untouched.
BadShape(row) ==
    \/ Len(row) < 4
    \/ Len(row) \in {5, 6}
    \/ \E k \in 2..4 : k <= Len(row) /\ ~Numeric(row[k])
    \/ Len(row) >= 7 /\ \E k \in 5..7 : ~Integral(row[k])

C6_BadRowAborts ==
    \A i \in 1..Len(trace) :
        (Rows[i] # <<>> /\ BadShape(Rows[i]) /\ i # HeaderIdx) =>
            /\ trace[i] = "invalid"
            /\ i = Len(trace) /\ idx = i
            /\ ppc \in {"exit", "raised"}
            /\ err = InvalidContent(EnsureExt(filepath, filename_ext), Rows[i])
            /\ EndsWith(LowerStr(err.filename), filename_ext)
            /\ imported_data = <<>>
            /\ pc \in {"parsing", "done"}
            /\ pc = "done" => (ret = "CANCELLED" /\ reports = <<err>>)
            /\ ~SceneMutated

C6_Witness ==
    /\ pc = "done"
    /\ trace = <<"stored", "invalid">>
    /\ Len(file) = 3
    /\ Len(Rows[2]) = 6
    /\ result # <<>>
    /\ err.row = Rows[2]

\* C7: the color stored for a row is white when the row has exactly 4
\* fields and the integer triple of its fields 4, 5, 6 otherwise; it is a
\* function of that row alone.
C7_ColorOfRow ==
    LET stored == StoredFrom(1)
    IN  /\ Len(result) = Len(stored)
        /\ \A k \in 1..Len(stored) :
              LET row == Rows[stored[k]]
              IN  /\ result[k].name = row[1]
                  /\ Len(row) >= 4
                  /\ Len(row) = 4 => result[k].color = <<255, 255, 255>>
                  /\ Len(row) > 4 =>
                        result[k].color = <<IntOf(row[5]).val,
                                            IntOf(row[6]).val,
                                            IntOf(row[7]).val>>

C7_Witness ==
    /\ ppc = "returned"
    /\ Len(result) = 2
    /\ result[1].color = <<255, 255, 255>>
    /\ result[2].color = <<10, 20, 30>>
    /\ Len(Rows[1]) = 4 /\ Len(Rows[2]) = 8

\* C8: a file without data rows (empty, blank lines only, a header only, or
\* a header and blank lines) parses successfully to the empty mapping.
NoDataRows == DataIdx = {}

C8_EmptyFileParses ==
    (ContentParseDone /\ NoDataRows) =>
        /\ ppc = "returned"
        /\ result = <<>>
        /\ err = NoError

C8_Witness ==
    /\ ppc = "returned"
    /\ result = <<>>
    /\ InTrace("header") /\ InTrace("blank")
    /\ Len(trace) = Len(file)

\* C9: the file is opened at most once per call and is closed whenever the
\* caller holds the result or the error of the parse.
C9_HandleClosed ==
    /\ openCount <= 1
    /\ (ParseDone \/ pc \notin {"idle", "parsing"}) => handle # "open"
    /\ ppc \in {"returned", "raised"} /\ err.kind # "OSError" =>
          (handle = "closed" /\ openCount = 1)

C9_Witness ==
    /\ ParseFailed
    /\ err.kind = "RuntimeError"
    /\ handle = "closed"
    /\ openCount = 1
    /\ pc = "done"

\* C10: when the parse succeeds with zero entries, the operator reports
\* "Formation would be empty, nothing was created" and creates nothing: no
\* points, no light effect entry, no color image.
C10_NothingCreated ==
    (pc = "done" /\ ret = "FINISHED" /\ imported_data = <<>>) =>
        /\ reports = <<EmptyFormation>>
        /\ ~SceneMutated

====
